---- MODULE Spec2Model ----
(***************************************************************************)
(* A model of contrib-tracker.py: the time window filter (in_window), the  *)
(* caching proxy over remote objects (LPWrap), the per-project collector   *)
(* of merge proposals (Project), the per-user report builder (Report) and  *)
(* the orchestrating main().                                               *)
(*                                                                         *)
(* Remote objects are references into the provider's data (the variable    *)
(* remote); an attribute read on one is a fetch.  Time is counted in       *)
(* ticks, TicksPerDay of them to a day; a datetime is a record of its      *)
(* wall-clock reading (naive) and its tzinfo, and None is its own value.   *)
(***************************************************************************)
EXTENDS Integers, Sequences, FiniteSets, TLC

VARIABLES
    remote,     \* the provider's data, read by every fetch
    opts,       \* parse_args(args): users, projects, window
    pc,         \* main()'s position
    projects,   \* main()'s list of Project objects
    ui,         \* index of the user main()'s second loop is at
    report,     \* the Report object under construction / generating
    user_data,  \* generate()'s local of the same name, as far as it is built
    reports,    \* main()'s dict user -> user_data
    stdout,     \* what print() has written
    outfile,    \* what has been written to the --out file
    wraps,      \* the LPWrap instances alive: lpObj, instance dict, fetch counts
    iw,         \* the harness of in_window: its arguments and its result
    wr          \* the harness of LPWrap: position, last access and its result

vars == <<remote, opts, pc, projects, ui, report, user_data, reports,
          stdout, outfile, wraps, iw, wr>>

----------------------------------------------------------------------------
(* Bounds of the model *)

TicksPerDay == 2       \* resolution of the clock
MaxWindow == 2         \* in_window is tried for windows -MaxWindow..MaxWindow
MaxMPs == 4            \* merge proposals the provider holds
MaxTasks == 3          \* bug tasks the provider holds
MaxVotes == 2          \* votes on one merge proposal (where votes are drawn)
MaxAccesses == 4       \* attribute accesses made (LPWrap harness)

----------------------------------------------------------------------------
(* Time *)

\* Python values carry their class: None, a datetime, a str, an int
None == [class |-> "NoneType"]
PyStr(s) == [class |-> "str", str |-> s]
PyInt(n) == [class |-> "int", int |-> n]

\* UTCNOW = datetime.datetime.now(), taken once when the module is loaded
UTCNOW == 0

\* datetime.timedelta(days)
timedelta(days) == days * TicksPerDay

TzInfos == {"None", "UTC", "+12:00"}

datetime(naive, tz) == [class |-> "datetime", naive |-> naive, tzinfo |-> tz]

\* date.replace(tzinfo=None): the wall-clock reading is kept, the zone dropped
replace_tzinfo_None(date) == [date EXCEPT !.tzinfo = "None"]

Abs(n) == IF n < 0 THEN -n ELSE n

\* (mutants of in_window)
in_window_abs(window, date) ==
    IF date = None THEN FALSE
    ELSE Abs(UTCNOW - replace_tzinfo_None(date).naive) <= timedelta(window)

in_window_strict(window, date) ==
    IF date = None THEN FALSE
    ELSE UTCNOW - replace_tzinfo_None(date).naive < timedelta(window)

in_window(window, date) ==
    LET win == timedelta(window) IN
    IF date = None THEN FALSE
    ELSE LET naive_date == replace_tzinfo_None(date)
             delta == UTCNOW - naive_date.naive
         IN  delta <= win

----------------------------------------------------------------------------
(* The remote data provider (launchpadlib), as far as the program reads it *)

\* launchpad.people: the accounts, and person.display_name
People == {"alice", "alice2", "bob"}
display_name(person) == IF person = "bob" THEN "Bob" ELSE "Alice"

\* launchpad.projects, and project.name
ProjectIds == {"p1", "p2"}
project_name(project) == project

MPs == 1 .. MaxMPs
Tasks == 1 .. MaxTasks
Bugs == 1 .. ((MaxTasks + 1) \div 2)

\* the statuses a merge proposal can have (queue_status)
MPStatuses == {"Work in progress", "Needs review", "Approved", "Rejected",
               "Merged", "Code failed to merge", "Queued", "Superseded"}

\* who registered merge proposal mp, and the project it targets
mp_registrant(mp) == IF mp % 4 = 0 THEN "bob" ELSE "alice"
mp_target(mp) == IF mp % 2 = 1 THEN "p1" ELSE "p2"

\* mp.web_link, kept as its "/"-separated segments:
\* https://code.launchpad.net/~owner/project/+git/repo/+merge/n
web_link(mp) ==
    [segments |-> <<"https:", "", "code.launchpad.net",
                    "~" \o mp_registrant(mp), mp_target(mp),
                    "+git", mp_target(mp), "+merge", ToString(mp)>>]

\* link.split("/")
split(link) == link.segments

\* mp.date_created, mp.votes
date_created(rem, mp) == rem.mpDate[mp]
votes(rem, mp) == rem.votes[mp]

\* a vote: vote.reviewer (a person) and vote.comment (None, or a comment
\* whose .vote is the vote's value)
Comment(value) == [vote |-> value]
Vote(reviewer, comment) == [reviewer |-> reviewer, comment |-> comment]

RECURSIVE Ascending(_, _)
\* the members of the set S of numbers from n up, in ascending order
Ascending(S, n) ==
    IF \A m \in S : m < n THEN <<>>
    ELSE IF n \in S THEN <<n>> \o Ascending(S, n + 1)
    ELSE Ascending(S, n + 1)

\* project.getMergeProposals(status=status)
project_getMergeProposals(rem, project, status) ==
    Ascending({mp \in MPs : /\ mp_target(mp) = project
                            /\ rem.mpStatus[mp] = status}, 1)

\* person.getMergeProposals(status=status)
person_getMergeProposals(rem, person, status) ==
    Ascending({mp \in MPs : /\ mp_registrant(mp) = person
                            /\ rem.mpStatus[mp] = status}, 1)

\* a bug task t: its bug, its target, its title, its status, when it was
\* created; and a bug: its reporter, its title, when it was created
task_bug(t) == (t + 1) \div 2
task_target_name(t) == IF t % 2 = 1 THEN "p1" ELSE "p2"
bug_title(b) == "crash no. " \o ToString(b)
task_title(t) ==
    "Bug #" \o ToString(task_bug(t)) \o " in " \o task_target_name(t)
        \o ": " \o bug_title(task_bug(t))
task_status(t) == IF t % 4 = 0 THEN "Opinion" ELSE "New"
task_date_created(t) == datetime(UTCNOW - (t - 1), "UTC")
bug_reporter(b) == IF b % 3 = 0 THEN "bob" ELSE "alice"

\* person.searchTasks(bug_reporter=, status=, created_since=): the tasks of
\* the bugs that person reported, in one of the statuses, created at or
\* after created_since
searchTasks(rem, reporter, status, created_since) ==
    Ascending({t \in Tasks :
                 /\ bug_reporter(task_bug(t)) = reporter
                 /\ \E i \in 1 .. Len(status) : status[i] = task_status(t)
                 /\ task_date_created(t).naive >= created_since}, 1)

\* References to remote objects that are not plain values: entries (class
\* Entry) and collections (class Collection)
Entry(kind, id) == [class |-> "Entry", kind |-> kind, id |-> id]
Collection(kind, id) == [class |-> "Collection", kind |-> kind, id |-> id]

\* the attributes the provider's bug_task and bug entries have
Attrs == {"bug", "bug_target_name", "title", "date_created", "id",
          "bug_tasks"}
HasAttr(obj, attr) ==
    IF obj.kind = "bug_task"
    THEN attr \in {"bug", "bug_target_name", "title", "date_created"}
    ELSE attr \in {"id", "title", "date_created", "bug_tasks"}

\* getattr(lpObj, attr) on an entry of the provider
remote_getattr(rem, obj, attr) ==
    IF obj.kind = "bug_task" THEN
        CASE attr = "bug" -> Entry("bug", task_bug(obj.id))
          [] attr = "bug_target_name" -> PyStr(task_target_name(obj.id))
          [] attr = "title" -> PyStr(task_title(obj.id))
          [] attr = "date_created" -> task_date_created(obj.id)
    ELSE
        CASE attr = "id" -> PyInt(obj.id)
          [] attr = "title" -> PyStr(bug_title(obj.id))
          [] attr = "date_created" -> rem.bugDate[obj.id]
          [] attr = "bug_tasks" -> Collection("bug_tasks", obj.id)

\* result.__class__.__name__
class_name(value) == value.class

----------------------------------------------------------------------------
(* Python dicts, as functions *)

EmptyDict == <<>>

\* d[k] = v
DictSet(d, k, v) ==
    IF k \in DOMAIN d THEN [d EXCEPT ![k] = v] ELSE d @@ (k :> v)

\* d[k].append(v), d a defaultdict(list)
DictAppend(d, k, v) ==
    IF k \in DOMAIN d THEN [d EXCEPT ![k] = Append(@, v)] ELSE d @@ (k :> <<v>>)

\* what an operation that raised returns in place of its result
Raised == [class |-> "Exception"]

----------------------------------------------------------------------------
(* class LPWrap.  wraps is the heap of its instances; an instance holds    *)
(* lpObj, the rest of its instance dict (the attributes cached by setattr) *)
(* and, for each attribute name, how often getattr(self.lpObj, name) ran.  *)

AttrNames == Attrs \cup {"lpObj"}

\* LPWrap.__init__
LPWrap_init(lpObj) ==
    [lpObj |-> lpObj, dict |-> EmptyDict, asked |-> [a \in AttrNames |-> 0]]

\* a reference to the instance at place ref of the heap
LPWrapRef(ref) == [class |-> "LPWrap", ref |-> ref]

\* (mutant of LPWrap_getattr: the setattr is missing)
LPWrap_getattr_nosetattr(rem, heap, w, attr) ==
    LET result == remote_getattr(rem, heap[w].lpObj, attr)
        asked == [heap EXCEPT ![w].asked[attr] = @ + 1]
    IN  IF class_name(result) = "Entry"
        THEN [heap |-> Append(asked, LPWrap_init(result)),
              result |-> LPWrapRef(Len(asked) + 1)]
        ELSE [heap |-> asked, result |-> result]

\* LPWrap.__getattr__: the heap after the call, and what it returns
LPWrap_getattr(rem, heap, w, attr) ==
    LET result == remote_getattr(rem, heap[w].lpObj, attr)
        asked == [heap EXCEPT ![w].asked[attr] = @ + 1]
    IN  IF class_name(result) = "Entry"
        THEN LET wrapped == Append(asked, LPWrap_init(result))
                 ref == LPWrapRef(Len(wrapped))
             IN  [heap |-> [wrapped EXCEPT ![w].dict = DictSet(@, attr, ref)],
                  result |-> ref]
        ELSE [heap |-> [asked EXCEPT ![w].dict = DictSet(@, attr, result)],
              result |-> result]

\* the expression w.attr: Python looks in the instance dict first and calls
\* __getattr__ only when the name is not there
LPWrap_access(rem, heap, w, attr) ==
    IF attr = "lpObj" THEN [heap |-> heap, result |-> heap[w].lpObj]
    ELSE IF attr \in DOMAIN heap[w].dict
    THEN [heap |-> heap, result |-> heap[w].dict[attr]]
    ELSE LPWrap_getattr(rem, heap, w, attr)

----------------------------------------------------------------------------
(* class Project *)

review_status == <<"Needs review", "Approved", "Rejected", "Merged">>

RECURSIVE project_mps_loop_break(_, _, _, _)
\* (mutant of project_mps_loop: the loop stops at the first proposal out of
\* the window)
project_mps_loop_break(rem, window, mps, project_mps) ==
    IF mps = <<>> THEN project_mps
    ELSE LET mp == Head(mps) IN
         IF in_window(window, date_created(rem, mp))
         THEN project_mps_loop_break(rem, window, Tail(mps),
                                     Append(project_mps, mp))
         ELSE project_mps

RECURSIVE project_mps_loop(_, _, _, _)
\* the loop "for mp in mps" of Project._render_merge_proposals
project_mps_loop(rem, window, mps, project_mps) ==
    IF mps = <<>> THEN project_mps
    ELSE LET mp == Head(mps) IN
         project_mps_loop(rem, window, Tail(mps),
             IF in_window(window, date_created(rem, mp))
             THEN Append(project_mps, mp)
             ELSE project_mps)

RECURSIVE project_status_loop(_, _, _, _, _)
\* the loop "for status in self.review_status"
project_status_loop(rem, project, window, statuses, project_mps) ==
    IF statuses = <<>> THEN project_mps
    ELSE LET mps == project_getMergeProposals(rem, project, Head(statuses)) IN
         project_status_loop(rem, project, window, Tail(statuses),
             project_mps_loop(rem, window, mps, project_mps))

\* Project._render_merge_proposals
Project_render_merge_proposals(rem, project, window) ==
    project_status_loop(rem, project, window, review_status, <<>>)

\* Project.__init__; renders counts the runs of _render_merge_proposals
Project_init(rem, project, window) ==
    [project |-> project,
     window |-> window,
     merge_proposals |-> Project_render_merge_proposals(rem, project, window),
     renders |-> 1]

\* Project.name
Project_name(p) == project_name(p.project)

RECURSIVE votes_loop_first(_, _, _, _)
\* (mutant of votes_loop: the first matching vote is kept)
votes_loop_first(vs, link, user, votes_) ==
    IF vs = <<>> THEN votes_
    ELSE LET vote == Head(vs) IN
         votes_loop_first(Tail(vs), link, user,
             IF /\ display_name(vote.reviewer) = display_name(user)
                /\ link \notin DOMAIN votes_
             THEN DictSet(votes_, link, vote.comment.vote)
             ELSE votes_)

RECURSIVE votes_loop(_, _, _, _)
\* the loop "for vote in [v for v in mp.votes if v.comment]"
votes_loop(vs, link, user, votes_) ==
    IF vs = <<>> THEN votes_
    ELSE LET vote == Head(vs) IN
         votes_loop(Tail(vs), link, user,
             IF display_name(vote.reviewer) = display_name(user)
             THEN DictSet(votes_, link, vote.comment.vote)
             ELSE votes_)

RECURSIVE votes_mp_loop(_, _, _, _)
\* the loop "for mp in self.merge_proposals"
votes_mp_loop(rem, mps, user, votes_) ==
    IF mps = <<>> THEN votes_
    ELSE LET mp == Head(mps)
             commented == SelectSeq(votes(rem, mp), LAMBDA v : v.comment # None)
         IN  votes_mp_loop(rem, Tail(mps), user,
                 votes_loop(commented, web_link(mp), user, votes_))

\* Project.render_project_votes_by_user
render_project_votes_by_user(rem, p, user) ==
    votes_mp_loop(rem, p.merge_proposals, user, EmptyDict)

----------------------------------------------------------------------------
(* class Report *)

\* self.status of Report.__init__
Report_status == <<"New", "Incomplete", "Invalid", "Won't Fix", "Confirmed",
                   "Triaged", "In Progress", "Fix Committed", "Fix Released">>

\* the statuses Report._render_merge_proposals goes through
proposal_status == <<"Work in progress", "Needs review", "Approved",
                     "Rejected", "Merged", "Code failed to merge", "Queued",
                     "Superseded">>

\* Report.__init__, given self.launchpad.people[user]
Report_init(person, window) ==
    [user |-> person, window |-> window,
     since |-> UTCNOW - timedelta(window)]

RECURSIVE reported_loop_nocheck(_, _, _, _, _)
\* (mutant of reported_loop: the bug's date is not checked)
reported_loop_nocheck(rem, window, heap, tasks, reported) ==
    IF tasks = <<>> THEN [heap |-> heap, reported |-> reported]
    ELSE LET t == Head(tasks)
             target == LPWrap_access(rem, heap, t, "bug_target_name")
             bug == LPWrap_access(rem, target.heap, t, "bug")
             id == LPWrap_access(rem, bug.heap, bug.result.ref, "id")
             title == LPWrap_access(rem, id.heap, t, "title")
         IN  reported_loop_nocheck(rem, window, title.heap, Tail(tasks),
                 DictAppend(reported, target.result.str,
                            id.result.int :> title.result.str))

RECURSIVE reported_loop(_, _, _, _, _)
\* the loop "for t in tasks" of Report._render_reported; tasks holds the
\* places of the LPWrap instances in the heap
reported_loop(rem, window, heap, tasks, reported) ==
    IF tasks = <<>> THEN [heap |-> heap, reported |-> reported]
    ELSE LET t == Head(tasks)
             t_bug == LPWrap_access(rem, heap, t, "bug")
             date == LPWrap_access(rem, t_bug.heap, t_bug.result.ref,
                                   "date_created")
         IN  IF in_window(window, date.result)
             THEN LET target == LPWrap_access(rem, date.heap, t,
                                              "bug_target_name")
                      bug == LPWrap_access(rem, target.heap, t, "bug")
                      id == LPWrap_access(rem, bug.heap, bug.result.ref, "id")
                      title == LPWrap_access(rem, id.heap, t, "title")
                  IN  reported_loop(rem, window, title.heap, Tail(tasks),
                          DictAppend(reported, target.result.str,
                                     id.result.int :> title.result.str))
             ELSE reported_loop(rem, window, date.heap, Tail(tasks), reported)

\* Report._render_reported: the dict it returns and the LPWrap instances it
\* made
Report_render_reported(rem, self) ==
    LET found == searchTasks(rem, self.user, Report_status, self.since)
        tasks == [i \in 1 .. Len(found) |-> LPWrap_init(Entry("bug_task", found[i]))]
    IN  reported_loop(rem, self.window, tasks,
                      [i \in 1 .. Len(found) |-> i], EmptyDict)

RECURSIVE report_mps_loop_filter(_, _, _, _)
\* (mutant of report_mps_loop: a proposal out of the window is skipped and
\* the loop goes on)
report_mps_loop_filter(rem, window, all_mps, proposals) ==
    IF all_mps = <<>> THEN [raised |-> FALSE, proposals |-> proposals]
    ELSE LET mp == Head(all_mps) IN
         IF ~in_window(window, date_created(rem, mp))
         THEN report_mps_loop_filter(rem, window, Tail(all_mps), proposals)
         ELSE report_mps_loop_filter(rem, window, Tail(all_mps),
                  DictAppend(proposals, split(web_link(mp))[5], web_link(mp)))

RECURSIVE report_mps_loop(_, _, _, _)
\* the loop "for mp in all_mps" of Report._render_merge_proposals; a link
\* of fewer than five segments raises IndexError
report_mps_loop(rem, window, all_mps, proposals) ==
    IF all_mps = <<>> THEN [raised |-> FALSE, proposals |-> proposals]
    ELSE LET mp == Head(all_mps) IN
         IF ~in_window(window, date_created(rem, mp))
         THEN [raised |-> FALSE, proposals |-> proposals]      \* break
         ELSE LET parts == split(web_link(mp)) IN
              IF Len(parts) < 5
              THEN [raised |-> TRUE, proposals |-> proposals]
              ELSE report_mps_loop(rem, window, Tail(all_mps),
                       DictAppend(proposals, parts[5], web_link(mp)))

RECURSIVE report_status_loop(_, _, _, _, _)
\* the loop "for status in [...]"
report_status_loop(rem, user, window, statuses, proposals) ==
    IF statuses = <<>> THEN [raised |-> FALSE, proposals |-> proposals]
    ELSE LET all_mps == person_getMergeProposals(rem, user, Head(statuses))
             done == report_mps_loop(rem, window, all_mps, proposals)
         IN  IF done.raised THEN done
             ELSE report_status_loop(rem, user, window, Tail(statuses),
                                     done.proposals)

\* Report._render_merge_proposals
Report_render_merge_proposals(rem, self) ==
    report_status_loop(rem, self.user, self.window, proposal_status, EmptyDict)

RECURSIVE code_reviews_loop_voted(_, _, _, _)
\* (mutant of code_reviews_loop: a project the user did not vote in is left
\* out)
code_reviews_loop_voted(rem, user, projs, code_reviews) ==
    IF projs = <<>> THEN code_reviews
    ELSE LET found == render_project_votes_by_user(rem, Head(projs), user) IN
         code_reviews_loop_voted(rem, user, Tail(projs),
             IF found = EmptyDict THEN code_reviews
             ELSE DictSet(code_reviews, Project_name(Head(projs)), found))

RECURSIVE code_reviews_loop(_, _, _, _)
\* the loop "for project in self.projects" of Report.generate
code_reviews_loop(rem, user, projs, code_reviews) ==
    IF projs = <<>> THEN code_reviews
    ELSE code_reviews_loop(rem, user, Tail(projs),
             DictSet(code_reviews, Project_name(Head(projs)),
                     render_project_votes_by_user(rem, Head(projs), user)))

----------------------------------------------------------------------------
(* output_data *)

\* format.lower()
lower(format) ==
    CASE format = "YAML" -> "yaml"
      [] format = "JSON" -> "json"
      [] OTHER -> format

\* output_data: the document, in the format asked for
output_data(data, format) ==
    LET f == lower(format) IN
    IF f = "yaml" THEN [yaml |-> data]
    ELSE IF f = "json" THEN [json |-> data]
    ELSE Raised

----------------------------------------------------------------------------
(* The inputs: what the provider holds and what the command line asks *)

\* --window's default
DefaultWindow == 8

Today == datetime(UTCNOW, "UTC")
TenDaysAgo == datetime(UTCNOW - timedelta(10), "UTC")

\* a fixture of votes: two accounts named Alice voting one after the other,
\* a vote without a comment, a single vote
CannedVotes(mp) ==
    CASE mp % 3 = 1 -> <<Vote("alice", Comment("Approve")),
                         Vote("alice2", Comment("Disapprove")),
                         Vote("bob", None)>>
      [] mp % 3 = 2 -> <<Vote("bob", Comment("Approve")),
                         Vote("alice", None)>>
      [] OTHER -> <<Vote("alice", Comment("Needs Fixing"))>>

CannedRemote ==
    [mpDate |-> [mp \in MPs |-> Today],
     mpStatus |-> [mp \in MPs |-> "Needs review"],
     votes |-> [mp \in MPs |-> CannedVotes(mp)],
     bugDate |-> [b \in Bugs |-> Today]]

\* the merge proposals are under review, but for at most one, which is
\* merged or superseded
StatusDeals ==
    {[mp \in MPs |-> IF mp # k THEN "Needs review"
                     ELSE IF k % 2 = 1 THEN "Merged" ELSE "Superseded"] :
        k \in 0 .. MaxMPs}

\* the provider's data of the runs of main(): every merge proposal created
\* today, ten days ago or at no known time; every bug created today or ten
\* days ago
MainRemotes ==
    {[CannedRemote EXCEPT !.mpDate = d, !.mpStatus = st, !.bugDate = b] :
        d \in [MPs -> {None, Today, TenDaysAgo}],
        st \in StatusDeals,
        b \in [Bugs -> {Today, TenDaysAgo}]}

\* parse_args: --users and --projects split at the commas, --window
MainOpts ==
    {[users |-> <<"alice", "bob">>, projects |-> <<"p1", "p2">>,
      window |-> DefaultWindow],
     [users |-> <<"bob", "alice", "alice">>, projects |-> <<"p2", "p2">>,
      window |-> DefaultWindow],
     [users |-> <<"alice">>, projects |-> <<"p1">>, window |-> 0]}

EmptyUserData ==
    [merge_proposals |-> EmptyDict, bug_reports |-> EmptyDict,
     code_reviews |-> EmptyDict]

IdleIW == [called |-> FALSE, window |-> 0, date |-> None, result |-> FALSE]
IdleWR ==
    [pc |-> "idle", n |-> 0,
     last |-> [w |-> 0, attr |-> "", fetched |-> FALSE, result |-> None]]

\* the state main() starts in
MainStart(remotes, options) ==
    /\ remote \in remotes
    /\ opts \in options
    /\ pc = "login"
    /\ projects = <<>>
    /\ ui = 1
    /\ report = None
    /\ user_data = EmptyUserData
    /\ reports = EmptyDict
    /\ stdout = <<>>
    /\ outfile = <<>>
    /\ wraps = <<>>

Init ==
    /\ MainStart(MainRemotes, MainOpts)
    /\ iw = IdleIW
    /\ wr = IdleWR

----------------------------------------------------------------------------
(* main() *)

\* Launchpad.login_with(...)
Login ==
    /\ pc = "login"
    /\ pc' = "projects"
    /\ UNCHANGED <<remote, opts, projects, ui, report, user_data, reports,
                   stdout, outfile, wraps, iw, wr>>

\* one round of "for project in opts.projects.split(",")":
\* projects.append(Project(launchpad, project, opts.window))
ConstructProject ==
    /\ pc = "projects"
    /\ LET project == opts.projects[Len(projects) + 1] IN
       projects' = Append(projects, Project_init(remote, project, opts.window))
    /\ pc' = IF Len(projects') = Len(opts.projects) THEN "users" ELSE "projects"
    /\ UNCHANGED <<remote, opts, ui, report, user_data, reports, stdout,
                   outfile, wraps, iw, wr>>

\* report = Report(launchpad, user, projects, opts.window), and generate()
\* starting: user_data's dict is new
ReportInit ==
    /\ pc = "users"
    /\ report' = Report_init(opts.users[ui], opts.window)
    /\ user_data' = EmptyUserData
    /\ wraps' = <<>>
    /\ pc' = "merge_proposals"
    /\ UNCHANGED <<remote, opts, projects, ui, reports, stdout, outfile, iw, wr>>

\* "merge_proposals": self._render_merge_proposals()
RenderMergeProposals ==
    /\ pc = "merge_proposals"
    /\ LET done == Report_render_merge_proposals(remote, report) IN
       IF done.raised
       THEN /\ pc' = "aborted"
            /\ UNCHANGED user_data
       ELSE /\ pc' = "bug_reports"
            /\ user_data' = [user_data EXCEPT !.merge_proposals = done.proposals]
    /\ UNCHANGED <<remote, opts, projects, ui, report, reports, stdout,
                   outfile, wraps, iw, wr>>

\* "bug_reports": self._render_reported()
RenderReported ==
    /\ pc = "bug_reports"
    /\ LET done == Report_render_reported(remote, report) IN
       /\ user_data' = [user_data EXCEPT !.bug_reports = done.reported]
       /\ wraps' = done.heap
    /\ pc' = "code_reviews"
    /\ UNCHANGED <<remote, opts, projects, ui, report, reports, stdout,
                   outfile, iw, wr>>

\* (mutant of CodeReviews: each user's report is printed as soon as built)
CodeReviews_streaming ==
    /\ pc = "code_reviews"
    /\ user_data' =
           [user_data EXCEPT !.code_reviews =
               code_reviews_loop(remote, report.user, projects, EmptyDict)]
    /\ reports' = DictSet(reports, opts.users[ui], user_data')
    /\ stdout' = Append(stdout, output_data(user_data', "yaml"))
    /\ ui' = ui + 1
    /\ pc' = IF ui = Len(opts.users) THEN "output" ELSE "users"
    /\ UNCHANGED <<remote, opts, projects, report, outfile, wraps, iw, wr>>

\* (mutant of CodeReviews: the query fetches the project's proposals anew)
CodeReviews_refetch ==
    /\ pc = "code_reviews"
    /\ projects' =
           [i \in 1 .. Len(projects) |->
               [projects[i] EXCEPT
                   !.merge_proposals =
                       Project_render_merge_proposals(remote, projects[i].project,
                                                      projects[i].window),
                   !.renders = @ + 1]]
    /\ user_data' =
           [user_data EXCEPT !.code_reviews =
               code_reviews_loop(remote, report.user, projects', EmptyDict)]
    /\ reports' = DictSet(reports, opts.users[ui], user_data')
    /\ ui' = ui + 1
    /\ pc' = IF ui = Len(opts.users) THEN "output" ELSE "users"
    /\ UNCHANGED <<remote, opts, report, stdout, outfile, wraps, iw, wr>>

\* the loop over self.projects of generate(), its return, and main()'s
\* reports[user] = report.generate()
CodeReviews ==
    /\ pc = "code_reviews"
    /\ user_data' =
           [user_data EXCEPT !.code_reviews =
               code_reviews_loop(remote, report.user, projects, EmptyDict)]
    /\ reports' = DictSet(reports, opts.users[ui], user_data')
    /\ ui' = ui + 1
    /\ pc' = IF ui = Len(opts.users) THEN "output" ELSE "users"
    /\ UNCHANGED <<remote, opts, projects, report, stdout, outfile, wraps, iw, wr>>

\* the print unless --quiet, and the write when --out is given
Output ==
    /\ pc = "output"
    /\ \E quiet \in BOOLEAN, out \in BOOLEAN,
          format \in {"YAML", "yaml", "JSON", "json"} :
          /\ stdout' = IF ~quiet THEN Append(stdout, output_data(reports, format))
                       ELSE stdout
          /\ outfile' = IF out THEN Append(outfile, output_data(reports, format))
                        ELSE outfile
    /\ pc' = "done"
    /\ UNCHANGED <<remote, opts, projects, ui, report, user_data, reports,
                   wraps, iw, wr>>

\* a fetch from the provider fails: the exception is caught nowhere and
\* ends the run
RemoteFetchError ==
    /\ pc \in {"login", "projects", "users", "merge_proposals", "bug_reports",
               "code_reviews"}
    /\ pc' = "aborted"
    /\ UNCHANGED <<remote, opts, projects, ui, report, user_data, reports,
                   stdout, outfile, wraps, iw, wr>>

Next ==
    \/ Login
    \/ ConstructProject
    \/ ReportInit
    \/ RenderMergeProposals
    \/ RenderReported
    \/ CodeReviews
    \/ Output
    \/ RemoteFetchError

Spec == Init /\ [][Next]_vars

----------------------------------------------------------------------------
(* The runs of main() over the votes the provider may hold *)

VoteValues == {"Approve", "Disapprove"}
VoteSet ==
    {Vote(r, c) : r \in People, c \in {None} \cup {Comment(v) : v \in VoteValues}}
VoteLists == UNION {[1 .. n -> VoteSet] : n \in 0 .. MaxVotes}

\* the votes of merge proposal 1 are any list of at most MaxVotes votes
VoteRemotes ==
    {[CannedRemote EXCEPT !.votes[1] = vs, !.mpDate[2] = d] :
        vs \in VoteLists, d \in {Today, TenDaysAgo}}

VoteOpts ==
    [users : {<<"alice", "bob">>}, projects : {<<"p1", "p2">>},
     window : {DefaultWindow}]

InitVotes ==
    /\ MainStart(VoteRemotes, VoteOpts)
    /\ iw = IdleIW
    /\ wr = IdleWR

SpecVotes == InitVotes /\ [][Next]_vars

----------------------------------------------------------------------------
(* in_window, applied to every window and date of a range *)

\* main() is not running
MainIdle ==
    /\ remote = CannedRemote
    /\ opts = [users |-> <<"alice">>, projects |-> <<"p1">>,
               window |-> DefaultWindow]
    /\ pc = "idle"
    /\ projects = <<>>
    /\ ui = 1
    /\ report = None
    /\ user_data = EmptyUserData
    /\ reports = EmptyDict
    /\ stdout = <<>>
    /\ outfile = <<>>

Windows == (0 - MaxWindow) .. MaxWindow
MaxTicks == (MaxWindow + 1) * TicksPerDay
Dates ==
    {None} \cup {datetime(UTCNOW + d, tz) :
                    d \in (0 - MaxTicks) .. MaxTicks, tz \in TzInfos}

InitInWindow ==
    /\ MainIdle
    /\ wraps = <<>>
    /\ wr = IdleWR
    /\ iw \in [called : {FALSE}, window : Windows, date : Dates,
               result : {FALSE}]

\* result = in_window(window, date)
CallInWindow ==
    /\ ~iw.called
    /\ iw' = [iw EXCEPT !.called = TRUE,
                        !.result = in_window(iw.window, iw.date)]
    /\ UNCHANGED <<remote, opts, pc, projects, ui, report, user_data,
                   reports, stdout, outfile, wraps, wr>>

NextInWindow == CallInWindow

SpecInWindow == InitInWindow /\ [][NextInWindow]_vars

----------------------------------------------------------------------------
(* LPWrap, under any accesses: two instances have been made over entries   *)
(* of the provider, the same one or not, and attributes are read from the  *)
(* instances alive, in any order                                           *)

\* the entries instances are made over: the bug tasks, as in the program
\* (their bugs are wrapped when an access reaches them)
Entries == {Entry("bug_task", t) : t \in Tasks}

InitWrap ==
    /\ MainIdle
    /\ wraps \in {<<LPWrap_init(a), LPWrap_init(b)>> : a \in Entries, b \in Entries}
    /\ iw = IdleIW
    /\ wr = [IdleWR EXCEPT !.pc = "run"]

\* whether the expression w.attr finds its value
Resolves(heap, w, attr) ==
    \/ attr = "lpObj"
    \/ attr \in DOMAIN heap[w].dict
    \/ HasAttr(heap[w].lpObj, attr)

\* w.attr, for an instance w and a name the instance or its lpObj has
WrapAccess ==
    /\ wr.pc = "run"
    /\ wr.n < MaxAccesses
    /\ \E w \in 1 .. Len(wraps), attr \in AttrNames :
          /\ Resolves(wraps, w, attr)
          /\ LET got == LPWrap_access(remote, wraps, w, attr) IN
             /\ wraps' = got.heap
             /\ wr' = [wr EXCEPT
                          !.n = @ + 1,
                          !.last = [w |-> w, attr |-> attr,
                                    fetched |-> got.heap # wraps,
                                    result |-> got.result]]
    /\ UNCHANGED <<remote, opts, pc, projects, ui, report, user_data,
                   reports, stdout, outfile, iw>>

\* w.attr, for a name neither the instance nor its lpObj has, or when the
\* fetch fails: getattr(self.lpObj, attr) raises before anything is cached,
\* and the exception ends the run
WrapAccessRaises ==
    /\ wr.pc = "run"
    /\ wr.n < MaxAccesses
    /\ \E w \in 1 .. Len(wraps), attr \in AttrNames :
          /\ attr # "lpObj"
          /\ attr \notin DOMAIN wraps[w].dict
          /\ wraps' = IF HasAttr(wraps[w].lpObj, attr)
                      THEN [wraps EXCEPT ![w].asked[attr] = @ + 1]
                      ELSE wraps
          /\ wr' = [wr EXCEPT !.pc = "aborted", !.n = @ + 1]
    /\ UNCHANGED <<remote, opts, pc, projects, ui, report, user_data,
                   reports, stdout, outfile, iw>>

NextWrap ==
    \/ WrapAccess
    \/ WrapAccessRaises

SpecWrap == InitWrap /\ [][NextWrap]_vars

----------------------------------------------------------------------------
(* Properties of in_window (SpecInWindow) *)

\* C1: for every window W >= 0, in_window(W, T) is false when T is absent
\* and otherwise true exactly when now - T is at most W days: so it is true
\* for T = now, true for T at most W days in the past, false for T more than
\* W days in the past, and true for every T in the future.
C1_InWindow ==
    (iw.called /\ iw.window >= 0) =>
        /\ iw.date = None => ~iw.result
        /\ iw.date # None =>
            LET ago == UTCNOW - iw.date.naive
                W == iw.window * TicksPerDay
            IN  /\ iw.result <=> (ago <= W)
                /\ ago = 0 => iw.result
                /\ (ago > 0 /\ ago <= W) => iw.result
                /\ ago > W => ~iw.result
                /\ ago < 0 => iw.result

\* in_window has accepted a date further in the future than the window is long
C1_Witness ==
    /\ iw.called
    /\ iw.window >= 0
    /\ iw.date # None
    /\ iw.date.naive - UTCNOW > iw.window * TicksPerDay
    /\ iw.date.tzinfo # "None"
    /\ iw.result

\* C9, as claimed: for a window W <= 0 and a present T, in_window(W, T) is
\* true only if T equals now, and false for every other T, past or future.
C9_AsClaimed ==
    (iw.called /\ iw.window <= 0 /\ iw.date # None) =>
        /\ iw.result => iw.date.naive = UTCNOW
        /\ iw.date.naive # UTCNOW => ~iw.result

\* C9, amended: for a window W <= 0 and a present T, in_window(W, T) is true
\* exactly when T lies at least -W days after now; so it is false for every
\* T in the past, true for T = now only when W = 0, and true for every T far
\* enough in the future.
C9_NonPositiveWindow ==
    (iw.called /\ iw.window <= 0 /\ iw.date # None) =>
        LET ahead == iw.date.naive - UTCNOW
            W == iw.window * TicksPerDay
        IN  /\ iw.result <=> (ahead >= 0 - W)
            /\ ahead < 0 => ~iw.result
            /\ ahead = 0 => (iw.result <=> iw.window = 0)

\* in_window has accepted, for a negative window, the date exactly -W days
\* after now
C9_Witness ==
    /\ iw.called
    /\ iw.window < 0
    /\ iw.date # None
    /\ iw.date.naive - UTCNOW = 0 - iw.window * TicksPerDay
    /\ iw.result

----------------------------------------------------------------------------
(* Properties of the runs of main() (Spec) *)

Range(seq) == {seq[i] : i \in 1 .. Len(seq)}
NoDuplicates(seq) == Cardinality(Range(seq)) = Len(seq)

\* the dicts of merge proposals built so far, each with its user
BuiltMergeProposals ==
    {<<u, reports[u].merge_proposals>> : u \in DOMAIN reports}
        \cup (IF pc \in {"bug_reports", "code_reviews"}
              THEN {<<report.user, user_data.merge_proposals>>} ELSE {})

\* the dicts of bug reports built so far, each with its user
BuiltBugReports ==
    {<<u, reports[u].bug_reports>> : u \in DOMAIN reports}
        \cup (IF pc = "code_reviews"
              THEN {<<report.user, user_data.bug_reports>>} ELSE {})

InWindowMP(mp) == in_window(opts.window, remote.mpDate[mp])

\* the length of the longest leading run of in-window proposals of a list
LeadLen(list) ==
    CHOOSE k \in 0 .. Len(list) :
        /\ \A i \in 1 .. k : InWindowMP(list[i])
        /\ k < Len(list) => ~InWindowMP(list[k + 1])

\* the proposals in the leading runs of a user's eight lists
LeadingRuns(u) ==
    UNION {{L[i] : i \in 1 .. LeadLen(L)} :
              L \in {person_getMergeProposals(remote, u, st) : st \in MPStatuses}}

\* C2: the links a user's merge-proposals step records are, for each of the
\* eight statuses independently, those of the longest leading run of
\* in-window proposals of that status's list: what follows the first
\* proposal out of the window is dropped, in window or not, and the other
\* statuses are processed all the same.
C2_EarlyExit ==
    \A b \in BuiltMergeProposals :
        LET u == b[1]
            recorded == b[2]
        IN  /\ DOMAIN recorded = {mp_target(mp) : mp \in LeadingRuns(u)}
            /\ \A q \in DOMAIN recorded :
                  /\ NoDuplicates(recorded[q])
                  /\ Range(recorded[q]) =
                        {web_link(mp) : mp \in {m \in LeadingRuns(u) : mp_target(m) = q}}

\* a user's list of one status holds an in-window proposal behind one out of
\* the window, which is not recorded, and a proposal of another status is
C2_Witness ==
    /\ pc = "bug_reports"
    /\ \E st \in MPStatuses, other \in MPStatuses :
          LET L == person_getMergeProposals(remote, report.user, st)
              M == person_getMergeProposals(remote, report.user, other)
          IN  /\ st # other
              /\ \E j \in 1 .. Len(L) :
                    /\ j > LeadLen(L) + 1
                    /\ InWindowMP(L[j])
                    /\ \A q \in DOMAIN user_data.merge_proposals :
                          web_link(L[j]) \notin Range(user_data.merge_proposals[q])
              /\ LeadLen(M) >= 1
              /\ web_link(M[1]) \in Range(user_data.merge_proposals[mp_target(M[1])])

\* C4: a Project retains exactly the proposals the provider holds for it
\* under Needs review, Approved, Rejected and Merged whose date_created
\* passes in_window for its window: every one of them, and none out of the
\* window, without a date or of another status.
C4_ProjectFilter ==
    \A i \in 1 .. Len(projects) :
        LET p == projects[i] IN
        /\ NoDuplicates(p.merge_proposals)
        /\ Range(p.merge_proposals) =
              {mp \in MPs :
                  /\ mp_target(mp) = p.project
                  /\ remote.mpStatus[mp] \in
                        {"Needs review", "Approved", "Rejected", "Merged"}
                  /\ in_window(p.window, remote.mpDate[mp])}
        /\ \A mp \in Range(p.merge_proposals) : remote.mpDate[mp] # None

\* a Project has retained an in-window proposal that the provider returned
\* behind one of the same status that is out of the window or has no date
C4_Witness ==
    \E i \in 1 .. Len(projects) :
        \E a \in MPs, b \in MPs :
            /\ a < b
            /\ mp_target(a) = projects[i].project
            /\ mp_target(b) = projects[i].project
            /\ remote.mpStatus[a] = remote.mpStatus[b]
            /\ ~in_window(projects[i].window, remote.mpDate[a])
            /\ b \in Range(projects[i].merge_proposals)

\* the bug reports of user u are recorded in dict recorded, the record of a
\* task holding Title(task) under the id of its bug
BugReportsAre(u, recorded, Title(_)) ==
    LET returned == searchTasks(remote, u, Report_status,
                                UTCNOW - timedelta(opts.window))
        kept == {t \in Range(returned) :
                    in_window(opts.window, remote.bugDate[task_bug(t)])}
    IN  /\ DOMAIN recorded = {task_target_name(t) : t \in kept}
        /\ \A q \in DOMAIN recorded :
              /\ NoDuplicates(recorded[q])
              /\ Range(recorded[q]) =
                    {task_bug(t) :> Title(t) :
                        t \in {k \in kept : task_target_name(k) = q}}

\* C5, as claimed: a record is produced for a returned task iff its bug's
\* date_created passes in_window; the record maps the bug's id to the bug's
\* title, and records are grouped under the task's target name.
C5_AsClaimed ==
    \A b \in BuiltBugReports :
        BugReportsAre(b[1], b[2], LAMBDA t : bug_title(task_bug(t)))

\* C5, amended: a record is produced for a returned task iff its bug's
\* date_created passes in_window; the record maps the bug's id to the
\* task's own title, and records are grouped under the task's target name.
C5_BugReports ==
    \A b \in BuiltBugReports :
        BugReportsAre(b[1], b[2], LAMBDA t : task_title(t))

\* the bugs-reported step has recorded a task of one bug and dropped a
\* returned task of another, older bug
C5_Witness ==
    /\ pc = "code_reviews"
    /\ user_data.bug_reports # EmptyDict
    /\ \E t \in Range(searchTasks(remote, report.user, Report_status,
                                  report.since)) :
          ~in_window(opts.window, remote.bugDate[task_bug(t)])

\* C6: in every report built, the keys of code_reviews are the names of all
\* the Projects given to the builder, voted in or not; each maps to that
\* Project's votes_by_user(user), an empty dict where no vote matches.
C6_CodeReviews ==
    \A u \in DOMAIN reports :
        /\ Len(projects) = Len(opts.projects)
        /\ DOMAIN reports[u].code_reviews =
              {Project_name(projects[i]) : i \in 1 .. Len(projects)}
        /\ \A i \in 1 .. Len(projects) :
              reports[u].code_reviews[Project_name(projects[i])] =
                  render_project_votes_by_user(remote, projects[i], u)

\* a report maps one project to an empty dict and another to votes
C6_Witness ==
    \E u \in DOMAIN reports :
        \E q \in DOMAIN reports[u].code_reviews,
           r \in DOMAIN reports[u].code_reviews :
            /\ reports[u].code_reviews[q] = EmptyDict
            /\ reports[u].code_reviews[r] # EmptyDict

\* C7: once a fetch has failed, nothing has been or will be written to
\* stdout or to the --out file; what is written is written when every
\* user's report is built, and holds them all.
C7_NoPartialOutput ==
    /\ pc = "aborted" => (stdout = <<>> /\ outfile = <<>>)
    /\ (stdout # <<>> \/ outfile # <<>>) =>
          /\ pc = "done"
          /\ DOMAIN reports = Range(opts.users)
          /\ \A doc \in Range(stdout) \cup Range(outfile) :
                doc \in {[yaml |-> reports], [json |-> reports]}

\* a fetch has failed after a user's report was built
C7_Witness ==
    /\ pc = "aborted"
    /\ reports # EmptyDict
    /\ ui <= Len(opts.users)

\* C10: a Project's list of merge proposals is computed once, when the
\* Project is constructed, and no later step of the run changes the
\* Project: every user is served from the same list.
C10_ProjectsFrozen ==
    /\ [](\A i \in 1 .. Len(projects) : projects[i].renders = 1)
    /\ [][\A i \in 1 .. Len(projects) :
             /\ Len(projects') >= i
             /\ projects'[i] = projects[i]]_vars

\* two users' reports are built over a Project that holds proposals
C10_Witness ==
    /\ pc = "done"
    /\ Cardinality(DOMAIN reports) >= 2
    /\ \E i \in 1 .. Len(projects) : projects[i].merge_proposals # <<>>

----------------------------------------------------------------------------
(* Properties of votes_by_user (SpecVotes) *)

Max(S) == CHOOSE n \in S : \A m \in S : m <= n

\* the places, in the votes of mp, of the votes that carry a comment and
\* whose reviewer has the display name of user u
MatchingVotes(mp, u) ==
    {k \in 1 .. Len(remote.votes[mp]) :
        /\ remote.votes[mp][k].comment # None
        /\ display_name(remote.votes[mp][k].reviewer) = display_name(u)}

\* dict found is what the claim says of Project p and user u
VotesAre(p, u, found) ==
    /\ DOMAIN found \subseteq {web_link(mp) : mp \in Range(p.merge_proposals)}
    /\ \A mp \in Range(p.merge_proposals) :
          LET matching == MatchingVotes(mp, u) IN
          /\ web_link(mp) \in DOMAIN found <=> matching # {}
          /\ matching # {} =>
                found[web_link(mp)] =
                    remote.votes[mp][Max(matching)].comment.vote

\* C3: votes_by_user(user) of a Project holds, for each retained proposal,
\* an entry under the proposal's link iff some vote on it carries a comment
\* and has a reviewer with the user's display name; the entry is the value
\* of the last such vote, and a vote without a comment never counts.
C3_VotesByUser ==
    /\ \A i \in 1 .. Len(projects), u \in People :
          VotesAre(projects[i], u,
                   render_project_votes_by_user(remote, projects[i], u))
    /\ \A u \in DOMAIN reports, i \in 1 .. Len(projects) :
          VotesAre(projects[i], u,
                   reports[u].code_reviews[Project_name(projects[i])])

\* a report holds the vote of the second of two accounts of one display
\* name that voted differently on a retained proposal
C3_Witness ==
    \E u \in DOMAIN reports, i \in 1 .. Len(projects) :
        \E mp \in Range(projects[i].merge_proposals) :
            LET vs == remote.votes[mp]
                matching == MatchingVotes(mp, u)
            IN  /\ Cardinality(matching) >= 2
                /\ \E j \in matching, k \in matching :
                      /\ j < k
                      /\ k = Max(matching)
                      /\ vs[j].reviewer # vs[k].reviewer
                      /\ vs[j].comment.vote # vs[k].comment.vote
                /\ reports[u].code_reviews[Project_name(projects[i])][web_link(mp)]
                      = vs[Max(matching)].comment.vote

----------------------------------------------------------------------------
(* Properties of LPWrap (SpecWrap) *)

\* what instance w caches under attr is what its lpObj holds there, an
\* entry as an LPWrap instance over it
CachedRight(w, attr) ==
    LET held == remote_getattr(remote, wraps[w].lpObj, attr)
        cached == wraps[w].dict[attr]
    IN  IF class_name(held) = "Entry"
        THEN /\ class_name(cached) = "LPWrap"
             /\ cached.ref \in 1 .. Len(wraps)
             /\ wraps[cached.ref].lpObj = held
        ELSE cached = held

\* C8: an LPWrap instance asks its lpObj for an attribute at most once, on
\* the first access; every later access returns the value cached then and
\* fetches nothing; an entry is cached as one LPWrap instance over it; and
\* each instance has its own cache.
C8_LPWrapCache ==
    /\ [](\A w \in 1 .. Len(wraps), a \in AttrNames :
             /\ wraps[w].asked[a] <= 1
             /\ a \in DOMAIN wraps[w].dict =>
                    (wraps[w].asked[a] = 1 /\ CachedRight(w, a))
             /\ (wr.pc = "run" /\ a \notin DOMAIN wraps[w].dict) =>
                    wraps[w].asked[a] = 0)
    /\ [][/\ \A w \in 1 .. Len(wraps) :
               /\ Len(wraps') >= w
               /\ wraps'[w].lpObj = wraps[w].lpObj
               /\ \A a \in DOMAIN wraps[w].dict :
                     /\ a \in DOMAIN wraps'[w].dict
                     /\ wraps'[w].dict[a] = wraps[w].dict[a]
                     /\ wraps'[w].asked[a] = wraps[w].asked[a]
          /\ (wr'.n # wr.n /\ wr'.pc = "run" /\ wr'.last.attr # "lpObj") =>
               LET w == wr'.last.w
                   a == wr'.last.attr
               IN  /\ wr'.last.result = wraps'[w].dict[a]
                   /\ a \in DOMAIN wraps[w].dict =>
                         (wraps' = wraps /\ ~wr'.last.fetched)
                   /\ a \notin DOMAIN wraps[w].dict =>
                         (wraps'[w].asked[a] = 1 /\ wr'.last.fetched)]_vars

\* task.bug.title has been read twice: four accesses, of which the last two
\* fetched nothing, and one fetch for each hop
C8_Witness ==
    /\ wr.pc = "run"
    /\ wr.n = 4
    /\ \E t \in 1 .. Len(wraps) :
          /\ wraps[t].lpObj.kind = "bug_task"
          /\ "bug" \in DOMAIN wraps[t].dict
          /\ LET b == wraps[t].dict["bug"].ref IN
             /\ "title" \in DOMAIN wraps[b].dict
             /\ wr.last = [w |-> b, attr |-> "title", fetched |-> FALSE,
                           result |-> wraps[b].dict["title"]]
             /\ \A w \in 1 .. Len(wraps), a \in AttrNames :
                   wraps[w].asked[a] =
                       IF (w = t /\ a = "bug") \/ (w = b /\ a = "title")
                       THEN 1 ELSE 0

====
